---- MODULE Spec2Model ----
(***************************************************************************)
(* A model of src/weather_data_pipeline.py: the WeatherDataPipeline class  *)
(* and run_and_save_pipeline.                                              *)
(*                                                                         *)
(* Representation.                                                         *)
(*  - A string is a sequence of fragments.  The characters the code looks  *)
(*    at ("/", ",") are always fragments of their own, so that             *)
(*    str.replace and str.join are computed fragment by fragment.          *)
(*  - A calendar date (datetime.date) is a triple <<year, month, day>>;    *)
(*    its ISO text (date.isoformat, the "time" strings of a response, the  *)
(*    cells of the CSV) is the record [iso |-> <<year, month, day>>]; a    *)
(*    parsed timestamp (pandas datetime64) is [ord |-> proleptic ordinal]. *)
(*  - A number of a response is an integer v; a cell of a float column is  *)
(*    the rational [num |-> n, den |-> d] (a raw v is [num |-> v, den |->  *)
(*    1], a mean is [num |-> sum, den |-> count]).  Floating point         *)
(*    rounding is not modelled.                                            *)
(*  - A JSON null / None / NaN / NaT is NULL.                              *)
(*  - A DataFrame is the sequence of its columns, each a record [name,     *)
(*    dtype, values]; its rows are the positions of the values.  self.df   *)
(*    is NULL (None) or [frame |-> a DataFrame].                           *)
(***************************************************************************)
EXTENDS Integers, Sequences, FiniteSets, TLC

VARIABLES
    pc,         \* position of the single thread of control
    today,      \* datetime.today().date(), the wall clock read by get_date_range
    years,      \* the argument of get_date_range
    lat, lon, columns, timezone, df,   \* the fields of the WeatherDataPipeline
    start_date, end_date,              \* the pair returned by get_date_range
    url,        \* the string returned by build_url
    data,       \* the value returned by fetch_data
    log,        \* the records appended to weather_pipeline.log by this process
    stdout,     \* the lines printed
    csv,        \* the content of uasin_gishu_weather_data_cleaned.csv
    artifact,   \* the content of weather_data_pipeline.joblib
    calls,      \* history: the methods of the pipeline entered so far, in order
    exc,        \* the exception raised, with the step that raised it; NoExc if none
    exitCode    \* the exit status of the process, NotExited while it runs

vars == <<pc, today, years, lat, lon, columns, timezone, df, start_date, end_date,
          url, data, log, stdout, csv, artifact, calls, exc, exitCode>>

NULL == [null |-> TRUE]
NoError == "none"
NoExc == [type |-> NoError, raisedBy |-> "none"]
Raised(type, by) == [type |-> type, raisedBy |-> by]
NotExited == "running"
Unset == "unset"
NoFile == [file |-> "absent"]
OldFile == [file |-> "written by an earlier run"]
PartialFile == [file |-> "partially written"]

\* ------------------------------------------------------------------------
\* Configuration (lines 11-22)
\* ------------------------------------------------------------------------
LAT == "0.5143"
LON == "35.2698"
TIMEZONE == <<"Africa", "/", "Nairobi">>
DATA_COLUMNS ==
    <<"temperature_2m_max", "temperature_2m_min", "precipitation_sum", "windspeed_10m_max">>
CSV_FILENAME == "uasin_gishu_weather_data_cleaned.csv"
PIPELINE_FILENAME == "weather_data_pipeline.joblib"

\* ------------------------------------------------------------------------
\* Bounds of the model
\* ------------------------------------------------------------------------
MaxYears == 6      \* get_date_range is applied to 0..MaxYears
MaxTzLen == 3      \* fragments of a timezone string given to build_url
MaxCols == 2       \* column names given to build_url
MaxRows == 3       \* entries of an array of a response's "daily" object

\* ------------------------------------------------------------------------
\* datetime.date arithmetic, as the standard library computes it
\* ------------------------------------------------------------------------
DaysPerYear == 365
DefaultYears == 5

IsLeap(y) == y % 4 = 0 /\ (y % 100 # 0 \/ y % 400 = 0)

DaysInMonth(y, m) ==
    IF m = 2 THEN (IF IsLeap(y) THEN 29 ELSE 28)
    ELSE IF m \in {4, 6, 9, 11} THEN 30 ELSE 31

DaysBeforeYear(y) ==
    (y - 1) * 365 + ((y - 1) \div 4) - ((y - 1) \div 100) + ((y - 1) \div 400)

RECURSIVE DaysBeforeMonth(_, _)
DaysBeforeMonth(y, m) ==
    IF m = 1 THEN 0 ELSE DaysBeforeMonth(y, m - 1) + DaysInMonth(y, m - 1)

\* date.toordinal
ymd2ord(d) == DaysBeforeYear(d[1]) + DaysBeforeMonth(d[1], d[2]) + d[3]

\* date.fromordinal: the 400/100/4/1 year cycles of the proleptic Gregorian calendar
ord2ymd(ord) ==
    LET n0 == ord - 1
        n400 == n0 \div 146097
        r400 == n0 % 146097
        n100 == r400 \div 36524
        r100 == r400 % 36524
        n4 == r100 \div 1461
        r4 == r100 % 1461
        n1 == r4 \div 365
        n == r4 % 365
        year == n400 * 400 + 1 + n100 * 100 + n4 * 4 + n1
        guess == (n + 50) \div 32
        before(k) == DaysBeforeMonth(year, k)
        month == IF before(guess) > n THEN guess - 1 ELSE guess
    IN  IF n1 = 4 \/ n100 = 4 THEN <<year - 1, 12, 31>>
        ELSE <<year, month, n - before(month) + 1>>

ValidDate(d) ==
    /\ d[1] >= 1
    /\ d[2] \in 1..12
    /\ d[3] \in 1..DaysInMonth(d[1], d[2])

\* date - timedelta(days = k)
DateMinusDays(d, k) == ord2ymd(ymd2ord(d) - k)

\* date.isoformat: the text "YYYY-MM-DD", kept as its three fields
isoformat(d) == [iso |-> d]

\* A variant of get_date_range that steps back whole calendar years.
get_date_range_calendar(t, n) ==
    <<isoformat(<<t[1] - n, t[2], IF t[2] = 2 /\ t[3] = 29 THEN 28 ELSE t[3]>>),
      isoformat(t)>>

\* date - timedelta raises OverflowError when the result would precede 0001-01-01
RangeError(t, n) ==
    IF ymd2ord(t) - n * DaysPerYear < 1 THEN "OverflowError" ELSE NoError

\* WeatherDataPipeline.get_date_range (lines 44-47)
get_date_range(t, n) ==
    LET end == t
        start == DateMinusDays(end, n * DaysPerYear)
    IN  <<isoformat(start), isoformat(end)>>

\* ------------------------------------------------------------------------
\* Strings
\* ------------------------------------------------------------------------
\* str.replace(old, new, 1): the first occurrence only
RECURSIVE ReplaceFirst(_, _, _)
ReplaceFirst(s, old, new) ==
    IF s = <<>> THEN <<>>
    ELSE IF Head(s) = old THEN new \o Tail(s)
    ELSE <<Head(s)>> \o ReplaceFirst(Tail(s), old, new)

\* str.replace(old, new) with old a single fragment: every occurrence is replaced
RECURSIVE Replace(_, _, _)
Replace(s, old, new) ==
    IF s = <<>> THEN <<>>
    ELSE (IF Head(s) = old THEN new ELSE <<Head(s)>>) \o Replace(Tail(s), old, new)

\* sep.join(names): the names, each one fragment, with sep between neighbours
RECURSIVE Join(_, _)
Join(names, sep) ==
    IF names = <<>> THEN <<>>
    ELSE IF Len(names) = 1 THEN <<names[1]>>
    ELSE <<names[1], sep>> \o Join(Tail(names), sep)

\* WeatherDataPipeline.build_url (lines 49-57).  The f-string is kept as the record
\* of its pieces: the endpoint and the text formatted into each query parameter.
build_url(la, lo, cols, tz, start, end) ==
    LET daily_params == Join(cols, ",")
    IN  [endpoint |-> "https://archive-api.open-meteo.com/v1/archive",
         latitude |-> la,
         longitude |-> lo,
         start_date |-> start,
         end_date |-> end,
         daily |-> daily_params,
         timezone |-> Replace(tz, "/", <<"%2F">>)]

\* ------------------------------------------------------------------------
\* pandas, as far as the pipeline uses it
\* ------------------------------------------------------------------------
IsNull(v) == "null" \in DOMAIN v
IsNumber(v) == "num" \in DOMAIN v
IsIsoText(v) == "iso" \in DOMAIN v

Number(v) == [num |-> v, den |-> 1]

Range(s) == {s[i] : i \in DOMAIN s}

Keys(daily) == [i \in DOMAIN daily |-> daily[i].key]

HasKey(daily, k) == \E i \in DOMAIN daily : daily[i].key = k

\* pd.DataFrame(dict of lists) needs arrays of one length
EqualLengths(daily) ==
    \A i, j \in DOMAIN daily : Len(daily[i].values) = Len(daily[j].values)

\* the dtype pandas infers for a list of numbers, None and strings
InferDtype(values) ==
    IF \E i \in DOMAIN values : IsIsoText(values[i]) THEN "object"
    ELSE IF \E i \in DOMAIN values : IsNumber(values[i]) THEN "float64"
    ELSE "object"

\* pd.DataFrame(data["daily"]) (line 71): one column per key, in the order of the dict
DataFrame(daily) ==
    [i \in DOMAIN daily |->
        [name |-> daily[i].key,
         dtype |-> InferDtype(daily[i].values),
         values |-> daily[i].values]]

\* the value of self.df that holds a DataFrame
Table(frame) == [frame |-> frame]

ColumnNames(frame) == [i \in DOMAIN frame |-> frame[i].name]

RowCount(frame) == IF frame = <<>> THEN 0 ELSE Len(frame[1].values)

\* pd.to_datetime on one entry: None becomes NaT, an ISO date its timestamp
Parseable(v) == IsNull(v) \/ (IsIsoText(v) /\ ValidDate(v.iso))

to_datetime(values) ==
    [i \in DOMAIN values |->
        IF IsNull(values[i]) THEN NULL ELSE [ord |-> ymd2ord(values[i].iso)]]

\* df["time"] = pd.to_datetime(df["time"]) (line 72): the column keeps its position
ParseTimeColumn(frame) ==
    [i \in DOMAIN frame |->
        IF frame[i].name = "time"
        THEN [name |-> "time", dtype |-> "datetime64",
              values |-> to_datetime(frame[i].values)]
        ELSE frame[i]]

\* df.isna().sum(): the number of missing entries of a column
MissingCount(col) == Cardinality({i \in DOMAIN col.values : IsNull(col.values[i])})

\* df.isna().sum().all(): every column has a missing entry
AllColumnsMissing(frame) == \A i \in DOMAIN frame : MissingCount(frame[i]) > 0

\* df.isna().sum().any() (line 75): some column has a missing entry
AnyMissing(frame) == \E i \in DOMAIN frame : MissingCount(frame[i]) > 0

RECURSIVE SumFrom(_, _)
SumFrom(values, i) ==
    IF i > Len(values) THEN 0
    ELSE (IF IsNumber(values[i]) THEN values[i].num ELSE 0) + SumFrom(values, i + 1)

CountNumbers(values) == Cardinality({i \in DOMAIN values : IsNumber(values[i])})

\* the mean of all the numbers of the frame, whatever their column
TableMean(frame, k) ==
    LET numeric == {i \in DOMAIN frame : frame[i].dtype = "float64"}
        RECURSIVE Total(_)
        Total(S) == IF S = {} THEN <<0, 0>>
                    ELSE LET i == CHOOSE x \in S : TRUE
                             rest == Total(S \ {i})
                         IN  <<rest[1] + SumFrom(frame[i].values, 1),
                               rest[2] + CountNumbers(frame[i].values)>>
    IN  [num |-> Total(numeric)[1], den |-> Total(numeric)[2]]

\* df.mean(numeric_only=True)[name]: the mean of the non-missing entries of column k
ColumnMean(frame, k) ==
    [num |-> SumFrom(frame[k].values, 1), den |-> CountNumbers(frame[k].values)]

\* df.mean(numeric_only=True) has an entry for the numeric columns only
NumericColumns(frame) == {i \in DOMAIN frame : frame[i].dtype = "float64"}

\* df.fillna(df.mean(numeric_only=True), inplace=True) (line 77)
fillna_mean(frame) ==
    [k \in DOMAIN frame |->
        IF k \in NumericColumns(frame)
        THEN [frame[k] EXCEPT !.values =
                [i \in DOMAIN frame[k].values |->
                    IF IsNull(frame[k].values[i]) THEN ColumnMean(frame, k)
                    ELSE frame[k].values[i]]]
        ELSE frame[k]]

\* how to_csv writes one entry: a missing entry is the empty field, a timestamp its date
CsvField(v) ==
    IF IsNull(v) THEN [text |-> ""]
    ELSE IF "ord" \in DOMAIN v THEN isoformat(ord2ymd(v.ord))
    ELSE v

\* DataFrame.to_csv(filename, index=...): a header row and one row per position
to_csv(frame, index) ==
    [header |-> (IF index THEN <<"">> ELSE <<>>) \o ColumnNames(frame),
     rows |-> [r \in 1..RowCount(frame) |->
                 (IF index THEN <<[text |-> r - 1]>> ELSE <<>>)
                 \o [k \in DOMAIN frame |-> CsvField(frame[k].values[r])]]]

\* a to_csv call that keeps the index column
WriteCsvWithIndex(frame) == to_csv(frame, TRUE)

\* self.df.to_csv(filename, index=False) (line 81)
WriteCsv(frame) == to_csv(frame, FALSE)

\* ------------------------------------------------------------------------
\* Inputs: the wall clock, the arguments of the pure methods, the responses
\* ------------------------------------------------------------------------
\* the ISO text of the i-th day of the answered range
Day(i) == [iso |-> <<2024, 1, i>>]
D1 == Day(1)
D2 == Day(2)
BadDate == [iso |-> <<2024, 2, 30>>]

\* the dates get_date_range is applied to: the first and last day of every month
\* of a leap year and of the year after it
RangeTodays ==
    {<<y, m, d>> : y \in {2024, 2025}, m \in 1..12, d \in {1, 28, 29, 30, 31}}
        \cap {<<y, m, d>> \in (2024..2025) \X (1..12) \X (1..31) :
                d \in {1, DaysInMonth(y, m)}}

\* the days on which the pipeline is run
PipelineTodays == {<<2026, 11, 2>>, <<2024, 2, 29>>}

TzFragments == {"Africa", "/", "%2F"}

TzStrings == UNION {[1..n -> TzFragments] : n \in 0..MaxTzLen}

UrlColumnNames == {"temperature_2m_max", "precipitation_sum", "windspeed_10m_max"}

Injective(s) == \A i, j \in DOMAIN s : s[i] = s[j] => i = j

InjectiveSeqs(S, maxLen) ==
    {s \in UNION {[1..n -> S] : n \in 0..maxLen} : Injective(s)}

UrlColumnSeqs == InjectiveSeqs(UrlColumnNames, MaxCols)

\* what the archive may put in an array of its "daily" object, by key
ResponseKeys == {"time", "temperature_2m_max", "precipitation_sum"}

\* the entries a response may carry in row r under a key: a date is missing or
\* the r-th day, a temperature is missing or one of two numbers, a precipitation
\* is missing or one number
ValuesOf(key, r) ==
    IF key = "time" THEN {NULL, Day(r)}
    ELSE IF key = "temperature_2m_max" THEN {NULL, Number(20), Number(23)}
    ELSE {NULL, Number(30)}

ResponseKeySeqs == InjectiveSeqs(ResponseKeys, Cardinality(ResponseKeys))

\* the arrays of n entries a response may carry under a key it has; none otherwise
ArraysOf(key, keys, n) ==
    IF key \in Range(keys)
    THEN {a \in [1..n -> UNION {ValuesOf(key, r) : r \in 1..n}] :
            \A r \in 1..n : a[r] \in ValuesOf(key, r)}
    ELSE {<<>>}

Column(k, vals) == [key |-> k, values |-> vals]

\* the responses of a run of the whole pipeline
PipelineResponses ==
    { [k \in {} |-> NULL],                                   \* {}
      [error |-> TRUE, reason |-> "bad request"],            \* an error body
      [daily |-> <<>>],                                      \* {"daily": {}}
      [daily |-> <<Column("time", <<D1, D2>>),
                   Column("temperature_2m_max", <<Number(20), NULL>>)>>],
      [daily |-> <<Column("time", <<D1, D2>>),
                   Column("temperature_2m_max", <<Number(20), Number(23)>>),
                   Column("temperature_2m_min", <<Number(9), Number(11)>>),
                   Column("precipitation_sum", <<NULL, NULL>>),
                   Column("windspeed_10m_max", <<Number(7), NULL>>)>>,
       daily_units |-> "units"],
      [daily |-> <<Column("temperature_2m_max", <<Number(20)>>)>>],      \* no "time"
      [daily |-> <<Column("time", <<D1, D2>>),
                   Column("temperature_2m_max", <<Number(20)>>)>>],      \* ragged
      [daily |-> <<Column("time", <<D1, BadDate>>),
                   Column("temperature_2m_max", <<Number(20), Number(23)>>)>>] }

\* ------------------------------------------------------------------------
\* The program
\* ------------------------------------------------------------------------
LogRecord(level, msg) == [level |-> level, msg |-> msg]

StartMarker == LogRecord("INFO", "Starting pipeline...")
CompletionMarker == LogRecord("INFO", "Pipeline completed successfully.")
SuccessMessage == "Pipeline run and saved to " \o PIPELINE_FILENAME
FailureMessage(e) == "Pipeline failed: " \o e

\* the module is imported and run_and_save_pipeline is about to be called
Init ==
    /\ pc = "entry"
    /\ today \in PipelineTodays
    /\ years = DefaultYears
    /\ lat = Unset /\ lon = Unset /\ columns = Unset /\ timezone = Unset /\ df = Unset
    /\ start_date = Unset /\ end_date = Unset
    /\ url = Unset
    /\ data = Unset
    /\ log = <<>>
    /\ stdout = <<>>
    /\ csv \in {NoFile, OldFile}
    /\ artifact \in {NoFile, OldFile}
    /\ calls = <<>>
    /\ exc = NoExc
    /\ exitCode = NotExited

\* WeatherDataPipeline(LAT, LON, TIMEZONE, DATA_COLUMNS) (lines 99, 37-42)
Construct ==
    /\ pc = "entry"
    /\ lat' = LAT /\ lon' = LON /\ columns' = DATA_COLUMNS /\ timezone' = TIMEZONE
    /\ df' = NULL
    /\ pc' = "run"
    /\ UNCHANGED <<today, years, start_date, end_date, url, data, log, stdout, csv,
                   artifact, calls, exc, exitCode>>

\* run: the start marker (line 85)
RunStart ==
    /\ pc = "run"
    /\ log' = Append(log, StartMarker)
    /\ pc' = "get_date_range"
    /\ UNCHANGED <<today, years, lat, lon, columns, timezone, df, start_date, end_date,
                   url, data, stdout, csv, artifact, calls, exc, exitCode>>

\* start, end = self.get_date_range() (line 86)
GetDateRange ==
    /\ pc = "get_date_range"
    /\ calls' = Append(calls, "get_date_range")
    /\ IF RangeError(today, years) # NoError
       THEN /\ exc' = Raised(RangeError(today, years), "get_date_range")
            /\ pc' = "except"
            /\ UNCHANGED <<start_date, end_date>>
       ELSE /\ start_date' = get_date_range(today, years)[1]
            /\ end_date' = get_date_range(today, years)[2]
            /\ pc' = "build_url"
            /\ exc' = exc
    /\ UNCHANGED <<today, years, lat, lon, columns, timezone, df, url, data, log,
                   stdout, csv, artifact, exitCode>>

\* url = self.build_url(start, end) (line 87)
BuildUrl ==
    /\ pc = "build_url"
    /\ calls' = Append(calls, "build_url")
    /\ url' = build_url(lat, lon, columns, timezone, start_date, end_date)
    /\ pc' = "fetch_data"
    /\ UNCHANGED <<today, years, lat, lon, columns, timezone, df, start_date, end_date,
                   data, log, stdout, csv, artifact, exc, exitCode>>

\* fetch_data, the request succeeds and the body parses (lines 61-63)
FetchReturns ==
    /\ pc = "fetch_data"
    /\ calls' = Append(calls, "fetch_data")
    /\ data' \in PipelineResponses
    /\ pc' = "transform_to_dataframe"
    /\ UNCHANGED <<today, years, lat, lon, columns, timezone, df, start_date, end_date,
                   url, log, stdout, csv, artifact, exc, exitCode>>

\* a fetch_data that re-raises without logging
FetchRaisesSilently ==
    /\ pc = "fetch_data"
    /\ calls' = Append(calls, "fetch_data")
    /\ exc' = Raised("RequestException", "fetch_data")
    /\ pc' = "except"
    /\ UNCHANGED <<today, years, lat, lon, columns, timezone, df, start_date, end_date,
                   url, data, log, stdout, csv, artifact, exitCode>>

\* fetch_data, requests.get or raise_for_status raises (lines 64-66)
FetchRaises ==
    /\ pc = "fetch_data"
    /\ calls' = Append(calls, "fetch_data")
    /\ log' = Append(log, LogRecord("ERROR", "Error fetching data"))
    /\ exc' = Raised("RequestException", "fetch_data")
    /\ pc' = "except"
    /\ UNCHANGED <<today, years, lat, lon, columns, timezone, df, start_date, end_date,
                   url, data, stdout, csv, artifact, exitCode>>

\* the exception transform_to_dataframe raises on a response, NoError if it returns
TransformError(response) ==
    IF "daily" \notin DOMAIN response THEN "ValueError"            \* line 70
    ELSE IF ~EqualLengths(response.daily) THEN "ValueError"        \* line 71
    ELSE IF ~HasKey(response.daily, "time") THEN "KeyError"        \* line 72, df["time"]
    ELSE IF \E i \in DOMAIN response.daily :
                /\ response.daily[i].key = "time"
                /\ \E r \in DOMAIN response.daily[i].values :
                        ~Parseable(response.daily[i].values[r])
         THEN "ValueError"                                         \* line 72, to_datetime
    ELSE NoError

\* whether line 71 has assigned self.df when transform_to_dataframe ends
TableAssigned(response) ==
    "daily" \in DOMAIN response /\ EqualLengths(response.daily)

\* a transform_to_dataframe that reads data.get("daily", {}) instead of checking
TransformWithDefault ==
    LET response == [daily |-> IF "daily" \in DOMAIN data THEN data.daily ELSE <<>>]
    IN  /\ pc = "transform_to_dataframe"
        /\ calls' = Append(calls, "transform_to_dataframe")
        /\ exc' = IF TransformError(response) # NoError
                  THEN Raised(TransformError(response), "transform_to_dataframe")
                  ELSE exc
        /\ df' = IF ~TableAssigned(response) THEN df
                 ELSE IF TransformError(response) # NoError
                      THEN Table(DataFrame(response.daily))
                 ELSE Table(ParseTimeColumn(DataFrame(response.daily)))
        /\ pc' = IF TransformError(response) # NoError THEN "except"
                 ELSE "handle_missing_values"
        /\ UNCHANGED <<today, years, lat, lon, columns, timezone, start_date, end_date,
                       url, data, log, stdout, csv, artifact, exitCode>>

\* self.transform_to_dataframe(data) (lines 89, 68-72)
TransformToDataframe ==
    /\ pc = "transform_to_dataframe"
    /\ calls' = Append(calls, "transform_to_dataframe")
    /\ exc' = IF TransformError(data) # NoError
              THEN Raised(TransformError(data), "transform_to_dataframe")
              ELSE exc
    /\ df' = IF ~TableAssigned(data) THEN df
             ELSE IF TransformError(data) # NoError THEN Table(DataFrame(data.daily))
             ELSE Table(ParseTimeColumn(DataFrame(data.daily)))
    /\ pc' = IF TransformError(data) # NoError THEN "except" ELSE "handle_missing_values"
    /\ UNCHANGED <<today, years, lat, lon, columns, timezone, start_date, end_date,
                   url, data, log, stdout, csv, artifact, exitCode>>

MissingCounts(frame) == [i \in DOMAIN frame |-> <<frame[i].name, MissingCount(frame[i])>>]

\* self.handle_missing_values() (lines 90, 74-78)
HandleMissingValues ==
    /\ pc = "handle_missing_values"
    /\ calls' = Append(calls, "handle_missing_values")
    /\ IF AnyMissing(df.frame)
       THEN /\ df' = Table(fillna_mean(df.frame))
            /\ log' = log \o
                 <<[level |-> "WARNING", msg |-> "Missing values found",
                    counts |-> MissingCounts(df.frame)],
                   LogRecord("INFO", "Filled missing values with column means.")>>
       ELSE UNCHANGED <<df, log>>
    /\ pc' = "save_data"
    /\ UNCHANGED <<today, years, lat, lon, columns, timezone, start_date, end_date,
                   url, data, stdout, csv, artifact, exc, exitCode>>

\* self.save_data(), the file is written (lines 91, 80-82)
SaveDataReturns ==
    /\ pc = "save_data"
    /\ calls' = Append(calls, "save_data")
    /\ csv' = WriteCsv(df.frame)
    /\ log' = Append(log, LogRecord("INFO", "Saved cleaned data to " \o CSV_FILENAME))
    /\ pc' = "run_end"
    /\ UNCHANGED <<today, years, lat, lon, columns, timezone, df, start_date, end_date,
                   url, data, stdout, artifact, exc, exitCode>>

\* a save_data that catches the error of to_csv and returns
SaveDataSwallows ==
    /\ pc = "save_data"
    /\ calls' = Append(calls, "save_data")
    /\ csv' \in {csv, PartialFile}
    /\ pc' = "run_end"
    /\ UNCHANGED <<today, years, lat, lon, columns, timezone, df, start_date, end_date,
                   url, data, log, stdout, artifact, exc, exitCode>>

\* self.save_data(), to_csv raises: the file cannot be opened, or the write breaks off
SaveDataRaises ==
    /\ pc = "save_data"
    /\ calls' = Append(calls, "save_data")
    /\ csv' \in {csv, PartialFile}
    /\ exc' = Raised("OSError", "save_data")
    /\ pc' = "except"
    /\ UNCHANGED <<today, years, lat, lon, columns, timezone, df, start_date, end_date,
                   url, data, log, stdout, artifact, exitCode>>

\* run: the completion marker (line 92)
RunEnd ==
    /\ pc = "run_end"
    /\ log' = Append(log, CompletionMarker)
    /\ pc' = "dump"
    /\ UNCHANGED <<today, years, lat, lon, columns, timezone, df, start_date, end_date,
                   url, data, stdout, csv, artifact, calls, exc, exitCode>>

\* joblib.dump(pipeline, PIPELINE_FILENAME) writes the object (line 103)
DumpReturns ==
    /\ pc = "dump"
    /\ artifact' = [lat |-> lat, lon |-> lon, columns |-> columns,
                    timezone |-> timezone, df |-> df]
    /\ pc' = "log_saved"
    /\ UNCHANGED <<today, years, lat, lon, columns, timezone, df, start_date, end_date,
                   url, data, log, stdout, csv, calls, exc, exitCode>>

\* joblib.dump raises (line 103)
DumpRaises ==
    /\ pc = "dump"
    /\ artifact' \in {artifact, PartialFile}
    /\ exc' = Raised("OSError", "joblib.dump")
    /\ pc' = "except"
    /\ UNCHANGED <<today, years, lat, lon, columns, timezone, df, start_date, end_date,
                   url, data, log, stdout, csv, calls, exitCode>>

\* line 104
LogSaved ==
    /\ pc = "log_saved"
    /\ log' = Append(log, LogRecord("INFO", "Pipeline object saved as " \o PIPELINE_FILENAME))
    /\ pc' = "print_success"
    /\ UNCHANGED <<today, years, lat, lon, columns, timezone, df, start_date, end_date,
                   url, data, stdout, csv, artifact, calls, exc, exitCode>>

\* line 105
PrintSuccess ==
    /\ pc = "print_success"
    /\ stdout' = Append(stdout, SuccessMessage)
    /\ pc' = "return"
    /\ UNCHANGED <<today, years, lat, lon, columns, timezone, df, start_date, end_date,
                   url, data, log, csv, artifact, calls, exc, exitCode>>

\* except Exception as e: logging.error (lines 107-108)
LogFailure ==
    /\ pc = "except"
    /\ log' = Append(log, LogRecord("ERROR", FailureMessage(exc.type)))
    /\ pc' = "print_failure"
    /\ UNCHANGED <<today, years, lat, lon, columns, timezone, df, start_date, end_date,
                   url, data, stdout, csv, artifact, calls, exc, exitCode>>

\* a handler after which the success message is printed all the same
PrintFailureFallsThrough ==
    /\ pc = "print_failure"
    /\ stdout' = Append(stdout, FailureMessage(exc.type))
    /\ pc' = "print_success"
    /\ UNCHANGED <<today, years, lat, lon, columns, timezone, df, start_date, end_date,
                   url, data, log, csv, artifact, calls, exc, exitCode>>

\* print(f"Pipeline failed: {e}") (line 109)
PrintFailure ==
    /\ pc = "print_failure"
    /\ stdout' = Append(stdout, FailureMessage(exc.type))
    /\ pc' = "return"
    /\ UNCHANGED <<today, years, lat, lon, columns, timezone, df, start_date, end_date,
                   url, data, log, csv, artifact, calls, exc, exitCode>>

\* the exit status of an interpreter whose main module ran to its end
NormalExit == 0

\* run_and_save_pipeline returns and the module ends (lines 114-115): nothing
\* re-raises the exception or calls sys.exit, so the interpreter exits normally
Exit ==
    /\ pc = "return"
    /\ exitCode' = NormalExit
    /\ pc' = "exited"
    /\ UNCHANGED <<today, years, lat, lon, columns, timezone, df, start_date, end_date,
                   url, data, log, stdout, csv, artifact, calls, exc>>

Next ==
    \/ Construct
    \/ RunStart
    \/ GetDateRange
    \/ BuildUrl
    \/ FetchReturns
    \/ FetchRaises
    \/ TransformToDataframe
    \/ HandleMissingValues
    \/ SaveDataReturns
    \/ SaveDataRaises
    \/ RunEnd
    \/ DumpReturns
    \/ DumpRaises
    \/ LogSaved
    \/ PrintSuccess
    \/ LogFailure
    \/ PrintFailure
    \/ Exit

Spec == Init /\ [][Next]_vars

\* ------------------------------------------------------------------------
\* get_date_range applied to every year count of 0..MaxYears on every day of
\* RangeTodays
\* ------------------------------------------------------------------------
InitRange ==
    /\ pc = "get_date_range"
    /\ today \in RangeTodays
    /\ years \in 0..MaxYears
    /\ lat = LAT /\ lon = LON /\ columns = DATA_COLUMNS /\ timezone = TIMEZONE
    /\ df = NULL
    /\ start_date = Unset /\ end_date = Unset
    /\ url = Unset
    /\ data = Unset
    /\ log = <<>>
    /\ stdout = <<>>
    /\ csv = NoFile
    /\ artifact = NoFile
    /\ calls = <<>>
    /\ exc = NoExc
    /\ exitCode = NotExited

SpecRange == InitRange /\ [][GetDateRange]_vars

\* ------------------------------------------------------------------------
\* build_url applied by a pipeline constructed with any timezone of TzStrings and
\* any columns of UrlColumnSeqs
\* ------------------------------------------------------------------------
InitUrl ==
    /\ pc = "build_url"
    /\ today = <<2026, 11, 2>>
    /\ years = DefaultYears
    /\ lat = LAT /\ lon = LON
    /\ columns \in UrlColumnSeqs
    /\ timezone \in TzStrings
    /\ df = NULL
    /\ start_date = get_date_range(today, years)[1]
    /\ end_date = get_date_range(today, years)[2]
    /\ url = Unset
    /\ data = Unset
    /\ log = <<StartMarker>>
    /\ stdout = <<>>
    /\ csv = NoFile
    /\ artifact = NoFile
    /\ calls = <<"get_date_range">>
    /\ exc = NoExc
    /\ exitCode = NotExited

SpecUrl == InitUrl /\ [][BuildUrl]_vars

\* ------------------------------------------------------------------------
\* The cleaner and the persister on every response with a "daily" object of
\* parallel arrays of at most MaxRows entries over ResponseKeys, the keys in any
\* order, and on the response without one: a run of a pipeline constructed with
\* the columns CleanerColumns, from the return of fetch_data to the return of
\* save_data
\* ------------------------------------------------------------------------
CleanerColumns == <<"temperature_2m_max", "precipitation_sum">>

InitClean ==
    /\ pc = "transform_to_dataframe"
    /\ today = <<2026, 11, 2>>
    /\ years = DefaultYears
    /\ lat = LAT /\ lon = LON /\ columns = CleanerColumns /\ timezone = TIMEZONE
    /\ df = NULL
    /\ start_date = get_date_range(today, years)[1]
    /\ end_date = get_date_range(today, years)[2]
    /\ url = build_url(lat, lon, columns, timezone, start_date, end_date)
    /\ \/ data = [k \in {} |-> NULL]
       \/ \E keys \in ResponseKeySeqs, n \in 0..MaxRows :
            \E t \in ArraysOf("time", keys, n),
               a \in ArraysOf("temperature_2m_max", keys, n),
               b \in ArraysOf("precipitation_sum", keys, n) :
                 data = [daily |->
                           [i \in DOMAIN keys |->
                              Column(keys[i],
                                     IF keys[i] = "time" THEN t
                                     ELSE IF keys[i] = "temperature_2m_max" THEN a
                                     ELSE b)]]
    /\ log = <<StartMarker>>
    /\ stdout = <<>>
    /\ csv = OldFile
    /\ artifact = NoFile
    /\ calls = <<"get_date_range", "build_url", "fetch_data">>
    /\ exc = NoExc
    /\ exitCode = NotExited

NextClean ==
    \/ TransformToDataframe
    \/ HandleMissingValues
    \/ SaveDataReturns
    \/ SaveDataRaises

SpecClean == InitClean /\ [][NextClean]_vars

\* ------------------------------------------------------------------------
\* Vocabulary of the properties
\* ------------------------------------------------------------------------
RunOrder ==
    <<"get_date_range", "build_url", "fetch_data", "transform_to_dataframe",
      "handle_missing_values", "save_data">>

IsPrefix(s, t) == Len(s) <= Len(t) /\ \A i \in DOMAIN s : s[i] = t[i]

Done(step) == \E i \in DOMAIN calls : calls[i] = step

Logged(level, msg) == \E i \in DOMAIN log : log[i].level = level /\ log[i].msg = msg

LoggedBefore(m1, m2) ==
    \E i, j \in DOMAIN log : i < j /\ log[i].msg = m1 /\ log[j].msg = m2

Printed(line) == \E i \in DOMAIN stdout : stdout[i] = line

\* the file is as it was before the run: absent, or what an earlier run wrote
Unwritten(f) == f \in {NoFile, OldFile}

IsCsvTable(f) == "header" \in DOMAIN f

IsDumpedObject(f) == "df" \in DOMAIN f

RaisedInRun == exc.raisedBy \in Range(RunOrder)

NoDaily(response) == "daily" \notin DOMAIN response

\* the number of dates of a response: the length of its "time" array
NumberOfDates(response) ==
    LET i == CHOOSE k \in DOMAIN response.daily : response.daily[k].key = "time"
    IN  Len(response.daily[i].values)

HasNumber(values) == \E r \in DOMAIN values : IsNumber(values[r])

RECURSIVE SumOfNumbers(_)
SumOfNumbers(values) ==
    IF values = <<>> THEN 0
    ELSE LET last == values[Len(values)]
         IN  SumOfNumbers(SubSeq(values, 1, Len(values) - 1))
             + (IF IsNumber(last) THEN last.num ELSE 0)

RECURSIVE HowManyNumbers(_)
HowManyNumbers(values) ==
    IF values = <<>> THEN 0
    ELSE HowManyNumbers(Tail(values)) + (IF IsNumber(Head(values)) THEN 1 ELSE 0)

DateLeq(a, b) ==
    \/ a[1] < b[1]
    \/ a[1] = b[1] /\ a[2] < b[2]
    \/ a[1] = b[1] /\ a[2] = b[2] /\ a[3] <= b[3]

\* ------------------------------------------------------------------------
\* C1.  When fetch_data fails, the failure is logged before it propagates, no
\* later step of the run executes, and neither the CSV file nor the pipeline
\* artifact is written or overwritten in the whole invocation.
\* ------------------------------------------------------------------------
C1_FetchFailureWritesNothing ==
    exc.raisedBy = "fetch_data" =>
        /\ exc.type = "RequestException"
        /\ Logged("ERROR", "Error fetching data")
        /\ calls = SubSeq(RunOrder, 1, 3)
        /\ Unwritten(csv)
        /\ Unwritten(artifact)

C1_Witness ==
    /\ pc = "exited"
    /\ exc.raisedBy = "fetch_data"
    /\ csv = OldFile
    /\ artifact = OldFile

\* ------------------------------------------------------------------------
\* C2.  For a response without a "daily" field, transform_to_dataframe raises
\* ValueError and leaves self.df unassigned; save_data is never reached and
\* neither the CSV file nor the pipeline artifact is written.
\* ------------------------------------------------------------------------
C2_NoDailyRaisesAndWritesNothing ==
    (Done("transform_to_dataframe") /\ NoDaily(data)) =>
        /\ exc = Raised("ValueError", "transform_to_dataframe")
        /\ df = NULL
        /\ ~Done("handle_missing_values")
        /\ ~Done("save_data")
        /\ Unwritten(csv)
        /\ Unwritten(artifact)

C2_Witness ==
    /\ pc = "exited"
    /\ Done("transform_to_dataframe")
    /\ DOMAIN data = {}

\* ------------------------------------------------------------------------
\* C5.  The steps of a run execute in the order get_date_range, build_url,
\* fetch_data, transform_to_dataframe, handle_missing_values, save_data, each at
\* most once; the start marker is logged before the first step and the
\* completion marker only after the CSV has been saved; a step that raises is
\* the last step executed and the completion marker is then never logged.
\* ------------------------------------------------------------------------
C5_StepsInOrderOnce ==
    /\ IsPrefix(calls, RunOrder)
    /\ calls # <<>> => (log # <<>> /\ log[1] = StartMarker)
    /\ Logged("INFO", CompletionMarker.msg) =>
          /\ calls = RunOrder
          /\ IsCsvTable(csv)
          /\ csv = WriteCsv(df.frame)
          /\ ~RaisedInRun
    /\ RaisedInRun =>
          /\ calls[Len(calls)] = exc.raisedBy
          /\ ~Logged("INFO", CompletionMarker.msg)

C5_Witness ==
    /\ pc = "exited"
    /\ Logged("INFO", CompletionMarker.msg)
    /\ calls = RunOrder

\* ------------------------------------------------------------------------
\* C6.  Whenever a step fails, the failure is logged at ERROR level before it is
\* reported, the failure message is printed, and the process ends
\* non-successfully (its exit status differs from that of a successful run).
\* ------------------------------------------------------------------------
C6_FailureExitsNonSuccessfully ==
    exc # NoExc =>
        /\ pc \in {"print_failure", "return", "exited"} =>
              Logged("ERROR", FailureMessage(exc.type))
        /\ pc \in {"return", "exited"} => Printed(FailureMessage(exc.type))
        /\ pc = "exited" => exitCode # NormalExit

\* ------------------------------------------------------------------------
\* C10.  An invocation prints exactly one of the success message and the failure
\* message; the success message only after the CSV was saved, the completion
\* marker logged and the artifact dumped, in that order; the artifact is never
\* written in a run in which a step of the pipeline failed.
\* ------------------------------------------------------------------------
C10_ExactlyOneOutcome ==
    /\ Len(stdout) <= 1
    /\ pc \in {"return", "exited"} =>
          /\ Len(stdout) = 1
          /\ stdout[1] = IF exc = NoExc THEN SuccessMessage ELSE FailureMessage(exc.type)
    /\ Printed(SuccessMessage) =>
          /\ exc = NoExc
          /\ IsCsvTable(csv)
          /\ IsDumpedObject(artifact)
          /\ LoggedBefore("Saved cleaned data to " \o CSV_FILENAME, CompletionMarker.msg)
          /\ LoggedBefore(CompletionMarker.msg, "Pipeline object saved as " \o PIPELINE_FILENAME)
    /\ ~Unwritten(artifact) =>
          /\ Logged("INFO", CompletionMarker.msg)
          /\ IsCsvTable(csv)
    /\ Logged("INFO", "Pipeline object saved as " \o PIPELINE_FILENAME) =>
          IsDumpedObject(artifact)
    /\ RaisedInRun => Unwritten(artifact)

C10_Witness ==
    /\ pc = "exited"
    /\ stdout = <<SuccessMessage>>
    /\ IsDumpedObject(artifact)

\* ------------------------------------------------------------------------
\* C8.  get_date_range(N) returns end = today and start = end minus exactly
\* N * 365 days, both valid calendar dates, with start <= end.
\* ------------------------------------------------------------------------
C8_RangeIsYearsTimes365Days ==
    pc = "build_url" =>
        /\ end_date = [iso |-> today]
        /\ ValidDate(start_date.iso)
        /\ ymd2ord(end_date.iso) - ymd2ord(start_date.iso) = years * 365
        /\ DateLeq(start_date.iso, end_date.iso)

C8_Witness ==
    /\ pc = "build_url"
    /\ years = 5
    /\ today = <<2024, 2, 29>>
    /\ start_date = [iso |-> <<2019, 3, 2>>]

\* ------------------------------------------------------------------------
\* C9.  build_url replaces every "/" of the timezone by "%2F", so that none is
\* left in the timezone parameter, joins the column names by commas in their
\* order in the daily parameter, and changes no field of the pipeline.
\* ------------------------------------------------------------------------
C9_UrlBuilt ==
    pc = "fetch_data" =>
        /\ \A i \in DOMAIN url.timezone : url.timezone[i] # "/"
        /\ Len(url.timezone) = Len(timezone)
        /\ \A i \in DOMAIN timezone :
              url.timezone[i] = IF timezone[i] = "/" THEN "%2F" ELSE timezone[i]
        /\ Len(url.daily) = IF columns = <<>> THEN 0 ELSE 2 * Len(columns) - 1
        /\ \A i \in DOMAIN columns : url.daily[2 * i - 1] = columns[i]
        /\ \A i \in 1..(Len(columns) - 1) : url.daily[2 * i] = ","

\* C9: the built URL encodes every "/" of the timezone and joins the columns by
\* commas in order, in every state, and the build_url step leaves lat, lon,
\* columns, timezone and df as they were.
C9_BuildUrlEncodesAndJoins ==
    /\ []C9_UrlBuilt
    /\ [][pc = "build_url" =>
            <<lat, lon, columns, timezone, df>>' = <<lat, lon, columns, timezone, df>>]_vars

C9_Witness ==
    /\ pc = "fetch_data"
    /\ timezone = <<"/", "Africa", "/">>
    /\ columns = <<"precipitation_sum", "temperature_2m_max">>
    /\ url.timezone = <<"%2F", "Africa", "%2F">>
    /\ url.daily = <<"precipitation_sum", ",", "temperature_2m_max">>

\* ------------------------------------------------------------------------
\* C3.  As claimed: after transform_to_dataframe and handle_missing_values no
\* column of the table, the date column and a column whose entries are all
\* missing included, has a missing entry, and the table has one row per date
\* of the response.
\* ------------------------------------------------------------------------
C3_NoMissingValueInAnyColumn ==
    Done("handle_missing_values") =>
        /\ \A k \in DOMAIN df.frame : MissingCount(df.frame[k]) = 0
        /\ RowCount(df.frame) = NumberOfDates(data)

\* C3, amended.  After transform_to_dataframe and handle_missing_values no column
\* that holds at least one number has a missing entry; in every other column (a
\* column whose entries are all missing, the date column) exactly the entries
\* missing in the response are missing; the table has one row per date of the
\* response.
C3_NoMissingValueInNumericColumns ==
    Done("handle_missing_values") =>
        /\ DOMAIN df.frame = DOMAIN data.daily
        /\ \A k \in DOMAIN df.frame :
              LET original == data.daily[k].values
                  cleaned == df.frame[k].values
              IN  /\ DOMAIN cleaned = DOMAIN original
                  /\ HasNumber(original) => \A r \in DOMAIN cleaned : ~IsNull(cleaned[r])
                  /\ ~HasNumber(original) =>
                        \A r \in DOMAIN cleaned : IsNull(cleaned[r]) <=> IsNull(original[r])
        /\ RowCount(df.frame) = NumberOfDates(data)

C3_Witness ==
    /\ Done("handle_missing_values")
    /\ data.daily = <<Column("temperature_2m_max", <<Number(20), NULL, Number(23)>>),
                      Column("time", <<Day(1), Day(2), NULL>>),
                      Column("precipitation_sum", <<NULL, NULL, NULL>>)>>
    /\ MissingCount(df.frame[1]) = 0
    /\ MissingCount(df.frame[2]) = 1
    /\ MissingCount(df.frame[3]) = 3

\* ------------------------------------------------------------------------
\* C4.  handle_missing_values replaces each missing entry of a numeric column by
\* the arithmetic mean of the originally non-missing entries of that column, and
\* leaves every originally non-missing entry and the date column as they were;
\* time = [2024-01-01, 2024-01-02], temperature_2m_max = [20.0, null] yields two
\* rows with the second temperature equal to 20.0.
\* ------------------------------------------------------------------------
C4_FilledWithMeanOfSameColumn ==
    Done("handle_missing_values") =>
        /\ DOMAIN df.frame = DOMAIN data.daily
        /\ \A k \in DOMAIN df.frame :
              LET original == data.daily[k].values
                  cleaned == df.frame[k].values
              IN  /\ df.frame[k].name = data.daily[k].key
                  /\ DOMAIN cleaned = DOMAIN original
                  /\ \A r \in DOMAIN cleaned :
                        IF data.daily[k].key = "time"
                        THEN cleaned[r] = IF IsNull(original[r]) THEN NULL
                                          ELSE [ord |-> ymd2ord(original[r].iso)]
                        ELSE IF IsNumber(original[r]) THEN cleaned[r] = original[r]
                        ELSE IF HasNumber(original)
                        THEN /\ IsNumber(cleaned[r])
                             /\ cleaned[r].den > 0
                             /\ cleaned[r].num * HowManyNumbers(original)
                                    = SumOfNumbers(original) * cleaned[r].den
                        ELSE IsNull(cleaned[r])
        /\ data.daily = <<Column("time", <<D1, D2>>),
                          Column("temperature_2m_max", <<Number(20), NULL>>)>> =>
              /\ RowCount(df.frame) = 2
              /\ df.frame[2].values[2].num = 20 * df.frame[2].values[2].den

C4_Witness ==
    /\ Done("handle_missing_values")
    /\ data.daily = <<Column("time", <<Day(1), Day(2), Day(3)>>),
                      Column("temperature_2m_max", <<Number(20), Number(23), NULL>>),
                      Column("precipitation_sum", <<NULL, Number(30), NULL>>)>>
    /\ df.frame[2].values = <<Number(20), Number(23), [num |-> 43, den |-> 2]>>
    /\ df.frame[3].values[1].num = 30 * df.frame[3].values[1].den
    /\ df.frame[3].values[3].num = 30 * df.frame[3].values[3].den

\* ------------------------------------------------------------------------
\* C7.  As claimed: whatever fields the response's "daily" object carries and in
\* whatever order, the header of the written table is "time" followed by exactly
\* the configured columns in their configured order; the table has one data row
\* per date and no index column.
\* ------------------------------------------------------------------------
C7_HeaderIsTimeThenConfiguredColumns ==
    IsCsvTable(csv) =>
        /\ csv.header = <<"time">> \o columns
        /\ Len(csv.rows) = NumberOfDates(data)
        /\ \A r \in DOMAIN csv.rows : Len(csv.rows[r]) = Len(columns) + 1

\* C7, amended.  The header of the written table lists the fields of the
\* response's "daily" object in the response's order (so it is "time" followed by
\* the configured columns in configured order only when the response carries
\* exactly those fields in that order); the table has one data row per date and
\* no index column.
C7_HeaderIsFieldsOfResponse ==
    IsCsvTable(csv) =>
        /\ csv.header = Keys(data.daily)
        /\ (csv.header = <<"time">> \o columns) <=> (Keys(data.daily) = <<"time">> \o columns)
        /\ Len(csv.rows) = NumberOfDates(data)
        /\ \A r \in DOMAIN csv.rows : Len(csv.rows[r]) = Len(Keys(data.daily))

C7_Witness ==
    /\ IsCsvTable(csv)
    /\ Keys(data.daily) = <<"precipitation_sum", "time", "temperature_2m_max">>
    /\ csv.header = <<"precipitation_sum", "time", "temperature_2m_max">>
    /\ Len(csv.rows) = 3

====
